---------------------------- MODULE Spec2Model ----------------------------
(***************************************************************************)
(* Model of the docusaurus-scalar plugin (packages/docusaurus-scalar/src/  *)
(* index.ts).  The source holds two variants of the plugin:                *)
(*   "nested" : lines 1-359, configuration with nav / route sub-objects;   *)
(*   "flat"   : lines 361-629, configuration with label / category /       *)
(*              routePath fields (ScalarOptions).                          *)
(* JavaScript strings are sequences of one-character strings; JavaScript   *)
(* values are records [type, val]; objects are functions from the keys    *)
(* they own to values.                                                     *)
(***************************************************************************)
EXTENDS Integers, Sequences, FiniteSets, TLC

VARIABLES
  variant,      \* "nested" | "flat": which variant of the plugin runs
  userOptions,  \* the options object the site hands to the plugin
  entry,        \* one element of options.paths or options.configurations
  file,         \* a file of that entry, relative to entry.path
  doc,          \* what loading that file gives: [status, title]
  pc,           \* position of the single-file pipeline
  options,      \* the plugin's effective options
  merged,       \* mergeConfig(entry, baseConfig)
  config,       \* the SpecConfig loadSpecFromFile hands to loadSpecFromContent
  resolved,     \* the SpecConfig loadSpecFromContent returns
  sources,      \* loadSpecs: the configured path sources
  inline,       \* loadSpecs: the inline configurations
  srcState,     \* loadSpecs: state of each path source's async callback
  fileState,    \* loadSpecs: state of each file's load
  cfgState,     \* loadSpecs: state of each inline configuration's load
  phase,        \* loadSpecs: position of the run
  content,      \* loadSpecs: the sequence loadContent resolved with
  log,          \* logger calls made so far (a set of [level, what, at])
  siteNavbar,   \* themeConfig.navbar.items as the site configured it
  navbar,       \* themeConfig.navbar.items, which addToNav pushes to
  routes,       \* the addRoute calls made so far, in order
  cursor        \* contentLoaded: how many items forEach has processed

vars == <<variant, userOptions, entry, file, doc, pc, options, merged, config,
          resolved, sources, inline, srcState, fileState, cfgState,
          phase, content, log, siteNavbar, navbar, routes, cursor>>

pipeVars == <<userOptions, entry, file, doc, pc, options, merged, config,
              resolved>>

loadVars == <<sources, inline, srcState, fileState, cfgState, phase, content, log>>

navVars == <<siteNavbar, navbar, routes, cursor>>

(***************************************************************************)
(* Bounds of the model.                                                    *)
(***************************************************************************)
\* longest enumerated title / route string
MaxLen == 3
\* most files one path source holds in a run of loadSpecs
MaxFiles == 2

(***************************************************************************)
(* Characters and strings.                                                 *)
(***************************************************************************)
LowerSeq == <<"a","b","c","d","e","f","g","h","i","j","k","l","m",
              "n","o","p","q","r","s","t","u","v","w","x","y","z">>
UpperSeq == <<"A","B","C","D","E","F","G","H","I","J","K","L","M",
              "N","O","P","Q","R","S","T","U","V","W","X","Y","Z">>
DigitSeq == <<"0","1","2","3","4","5","6","7","8","9">>

Range(s) == {s[i] : i \in DOMAIN s}

IsLower(c) == c \in Range(LowerSeq)
IsUpper(c) == c \in Range(UpperSeq)
IsDigit(c) == c \in Range(DigitSeq)
IsAlnum(c) == IsLower(c) \/ IsUpper(c) \/ IsDigit(c)

\* String.prototype.toLowerCase on one character
ToLowerChar(c) ==
  IF IsUpper(c) THEN LowerSeq[CHOOSE i \in DOMAIN UpperSeq : UpperSeq[i] = c] ELSE c

ToLower(s) == [i \in DOMAIN s |-> ToLowerChar(s[i])]

\* all strings over alphabet A of length at most n
RECURSIVE StrsOfLen(_, _)
StrsOfLen(A, n) ==
  IF n = 0 THEN {<<>>}
  ELSE {Append(s, c) : s \in StrsOfLen(A, n - 1), c \in A}

Strs(A, n) == UNION {StrsOfLen(A, k) : k \in 0..n}

\* s.substring(i, j) with 1-based i and inclusive j
Sub(s, i, j) == IF j < i THEN <<>> ELSE SubSeq(s, i, j)

\* String.prototype.split(sep) for a one-character separator
RECURSIVE Split(_, _)
Split(s, sep) ==
  IF \A i \in DOMAIN s : s[i] # sep THEN <<s>>
  ELSE LET i == CHOOSE k \in DOMAIN s :
                  s[k] = sep /\ \A m \in 1..(k - 1) : s[m] # sep
       IN <<Sub(s, 1, i - 1)>> \o Split(Sub(s, i + 1, Len(s)), sep)

\* Array.prototype.join(sep)
RECURSIVE JoinWith(_, _)
JoinWith(segs, sep) ==
  IF Len(segs) = 0 THEN <<>>
  ELSE IF Len(segs) = 1 THEN segs[1]
  ELSE segs[1] \o sep \o JoinWith(Tail(segs), sep)

\* Array.prototype.filter(s => s.length > 0)
RECURSIVE NonEmpty(_)
NonEmpty(segs) ==
  IF Len(segs) = 0 THEN <<>>
  ELSE IF Len(segs[1]) = 0 THEN NonEmpty(Tail(segs))
  ELSE <<segs[1]>> \o NonEmpty(Tail(segs))


(***************************************************************************)
(* lodash _.kebabCase, as index.ts:197 and index.ts:503 call it.  lodash   *)
(* is not part of the repository; the operators below follow lodash        *)
(* 4.17's words() and createCompounder() on ASCII letters, digits and     *)
(* separator characters.                                                   *)
(***************************************************************************)
CharAt(s, i) == IF i \in DOMAIN s THEN s[i] ELSE "" \* "" stands for the end

\* length of the longest run of characters of class cls that starts at i
InClass(c, cls) ==
  CASE cls = "lower" -> IsLower(c)
    [] cls = "upper" -> IsUpper(c)
    [] cls = "digit" -> IsDigit(c)
    [] cls = "alnum" -> IsAlnum(c)

RECURSIVE RunLen(_, _, _)
RunLen(s, i, cls) ==
  IF i \in DOMAIN s /\ InClass(s[i], cls) THEN 1 + RunLen(s, i + 1, cls) ELSE 0

\* reHasUnicodeWord: [a-z][A-Z] | [A-Z]{2}[a-z] | [0-9][a-zA-Z] | [a-zA-Z][0-9]
\*                   | [^a-zA-Z0-9 ]
HasUnicodeWord(s) ==
  \E i \in DOMAIN s :
    LET c == s[i]  d == CharAt(s, i + 1)  e == CharAt(s, i + 2) IN
      \/ IsLower(c) /\ IsUpper(d)
      \/ IsUpper(c) /\ IsUpper(d) /\ IsLower(e)
      \/ IsDigit(c) /\ (IsLower(d) \/ IsUpper(d))
      \/ (IsLower(c) \/ IsUpper(c)) /\ IsDigit(d)
      \/ ~IsAlnum(c) /\ c # " "

\* reAsciiWord: the maximal runs of ASCII letters and digits
RECURSIVE AsciiWordsFrom(_, _)
AsciiWordsFrom(s, i) ==
  IF i > Len(s) THEN <<>>
  ELSE LET n == RunLen(s, i, "alnum") IN
         IF n = 0 THEN AsciiWordsFrom(s, i + 1)
         ELSE <<Sub(s, i, i + n - 1)>> \o AsciiWordsFrom(s, i + n)

\* rsOrdUpper / rsOrdLower at the digit run of length m starting at i:
\*   \d*(?:1st|2nd|3rd|(?![123])\dth)(?=\b|[A-Z_])   (and the upper-case twin)
OrdinalAt(s, i, m) ==
  LET d == s[i + m - 1]
      x == CharAt(s, i + m)
      y == CharAt(s, i + m + 1)
      z == CharAt(s, i + m + 2)
      suffix(a, b) == x = a /\ y = b
      lower == \/ d = "1" /\ suffix("s", "t")
               \/ d = "2" /\ suffix("n", "d")
               \/ d = "3" /\ suffix("r", "d")
               \/ d \notin {"1", "2", "3"} /\ suffix("t", "h")
      upper == \/ d = "1" /\ suffix("S", "T")
               \/ d = "2" /\ suffix("N", "D")
               \/ d = "3" /\ suffix("R", "D")
               \/ d \notin {"1", "2", "3"} /\ suffix("T", "H")
  IN \/ upper /\ ~(IsUpper(z) \/ IsDigit(z))
     \/ lower /\ ~(IsLower(z) \/ IsDigit(z))

\* length of the match of reUnicodeWord at position i (0: no match there)
UnicodeWordLen(s, i) ==
  LET c == s[i] IN
    IF IsLower(c) THEN RunLen(s, i, "lower")
    ELSE IF IsUpper(c) THEN
      LET n == RunLen(s, i, "upper") IN
        IF IsLower(CharAt(s, i + n))
        THEN IF n = 1 THEN 1 + RunLen(s, i + 1, "lower") ELSE n - 1
        ELSE n
    ELSE IF IsDigit(c) THEN
      LET m == RunLen(s, i, "digit") IN
        IF OrdinalAt(s, i, m) THEN m + 2 ELSE m
    ELSE 0

RECURSIVE UnicodeWordsFrom(_, _)
UnicodeWordsFrom(s, i) ==
  IF i > Len(s) THEN <<>>
  ELSE LET n == UnicodeWordLen(s, i) IN
         IF n = 0 THEN UnicodeWordsFrom(s, i + 1)
         ELSE <<Sub(s, i, i + n - 1)>> \o UnicodeWordsFrom(s, i + n)

\* _.words(string)
Words(s) == IF HasUnicodeWord(s) THEN UnicodeWordsFrom(s, 1) ELSE AsciiWordsFrom(s, 1)

\* _.kebabCase(string)
KebabCase(s) == JoinWith([i \in DOMAIN Words(s) |-> ToLower(Words(s)[i])], <<"-">>)

(***************************************************************************)
(* Node's path module (posix), as index.ts uses it.                        *)
(***************************************************************************)
\* normalizeString(path, allowAboveRoot) over the "/"-separated segments
RECURSIVE NormalizeSegs(_, _, _)
NormalizeSegs(segs, acc, allowAboveRoot) ==
  IF Len(segs) = 0 THEN acc
  ELSE LET seg == segs[1]  rest == Tail(segs) IN
    IF seg = <<>> \/ seg = <<".">> THEN NormalizeSegs(rest, acc, allowAboveRoot)
    ELSE IF seg = <<".", ".">> THEN
      IF Len(acc) > 0 /\ acc[Len(acc)] # <<".", ".">>
      THEN NormalizeSegs(rest, Sub(acc, 1, Len(acc) - 1), allowAboveRoot)
      ELSE IF allowAboveRoot THEN NormalizeSegs(rest, Append(acc, seg), allowAboveRoot)
      ELSE NormalizeSegs(rest, acc, allowAboveRoot)
    ELSE NormalizeSegs(rest, Append(acc, seg), allowAboveRoot)

\* path.normalize(p)
PathNormalize(p) ==
  IF Len(p) = 0 THEN <<".">>
  ELSE LET isAbsolute == p[1] = "/"
           trailing == p[Len(p)] = "/"
           body == JoinWith(NormalizeSegs(Split(p, "/"), <<>>, ~isAbsolute), <<"/">>)
       IN IF Len(body) = 0
          THEN IF isAbsolute THEN <<"/">> ELSE IF trailing THEN <<".", "/">> ELSE <<".">>
          ELSE (IF isAbsolute THEN <<"/">> ELSE <<>>) \o body
               \o (IF trailing THEN <<"/">> ELSE <<>>)

\* path.join(...args): the non-empty arguments joined by "/", then normalized
PathJoin(args) ==
  IF NonEmpty(args) = <<>> THEN <<".">>
  ELSE PathNormalize(JoinWith(NonEmpty(args), <<"/">>))

\* index of the last occurrence of character c in s (0: none)
LastIndexOfChar(s, c) ==
  IF \E i \in DOMAIN s : s[i] = c
  THEN CHOOSE i \in DOMAIN s : s[i] = c /\ \A k \in (i + 1)..Len(s) : s[k] # c
  ELSE 0

\* path.parse(p) for a relative path p: [dir, base, ext, name]
PathParse(p) ==
  LET slash == LastIndexOfChar(p, "/")
      dir   == Sub(p, 1, slash - 1)
      base  == Sub(p, slash + 1, Len(p))
      dot   == LastIndexOfChar(base, ".")
      \* a leading dot starts a hidden file's name, not an extension
      hasExt == dot > 1 /\ base # <<".", ".">>
      ext   == IF hasExt THEN Sub(base, dot, Len(base)) ELSE <<>>
      name  == IF hasExt THEN Sub(base, 1, dot - 1) ELSE base
  IN [dir |-> dir, base |-> base, ext |-> ext, name |-> name]

\* String.prototype.lastIndexOf(sub), 0-based as in JavaScript (-1: none)
LastIndexOf(s, sub) ==
  LET hits == {i \in 0..(Len(s) - Len(sub)) : Sub(s, i + 1, i + Len(sub)) = sub}
  IN IF hits = {} THEN -1 ELSE CHOOSE i \in hits : \A k \in hits : k <= i


(***************************************************************************)
(* JavaScript values and objects.                                          *)
(***************************************************************************)
Undefined == [type |-> "undefined", val |-> <<>>]
Null      == [type |-> "null", val |-> <<>>]
False     == [type |-> "boolean", val |-> <<"false">>]
True      == [type |-> "boolean", val |-> <<"true">>]
Zero      == [type |-> "number", val |-> <<"0">>]
Str(s)    == [type |-> "string", val |-> s]
\* what an object holds at a key it does not own
Absent    == [type |-> "absent", val |-> <<>>]

\* ToBoolean(v)
Truthy(v) ==
  \/ v = True
  \/ v.type = "string" /\ v.val # <<>>
  \/ v.type = "number" /\ v.val # <<"0">>

\* typeof v !== 'undefined' (a missing key reads as undefined)
Defined(v) == v.type \notin {"undefined", "absent"}

\* o[k]
Get(o, k) == IF o[k] = Absent THEN Undefined ELSE o[k]

\* Object.keys(o)
OwnKeys(o) == {k \in DOMAIN o : o[k] # Absent}

\* a || b
Or(a, b) == IF Truthy(a) THEN a ELSE b

\* the text of a string value; "" for anything falsy (v || "")
OrEmpty(v) == IF Truthy(v) /\ v.type = "string" THEN v.val ELSE <<>>

\* keys of the configuration objects
TopKeys   == {"hideModels", "showSidebar", "path", "label", "category",
              "routePath", "routeBasePath"}
NavKeys   == {"label", "category", "labelFromSpec", "categoryFromPath",
              "labelFromFilename"}
RouteKeys == {"route", "routeFromSpec", "routeFromPath"}

\* {} over a key set
EmptyObj(K) == [k \in K |-> Absent]

\* a sub-object slot: isObj = FALSE is the value undefined
NoObj(K)  == [isObj |-> FALSE, f |-> EmptyObj(K)]
Obj(f)    == [isObj |-> TRUE, f |-> f]

\* an object literal: the pairs in kv over {} (K is the key set)
Lit(K, kv) == [k \in K |-> IF k \in DOMAIN kv THEN kv[k] ELSE Absent]

\* { ...a, ...b } for two key-value maps over the same key set
Spread(a, b) == [k \in DOMAIN a |-> IF b[k] # Absent THEN b[k] ELSE a[k]]

\* a configuration: its top-level keys, and its nav and route sub-objects
Cfg(top, nav, route) == [top |-> top, nav |-> nav, route |-> route]

(***************************************************************************)
(* mergeConfig, nested variant                     index.ts:104-125        *)
(***************************************************************************)
\* the bug a || b in place of the typeof test
MergeValueFalsy(a, b) == IF Truthy(a) THEN a ELSE b

\* index.ts:116  typeof a[k] !== 'undefined' ? a[k] : b[k]
MergeValue(a, b) == IF Defined(a) THEN a ELSE b

\* index.ts:110-119  merge(a, b) on two key-value maps
MergeKeys(a, b) ==
  [k \in DOMAIN a |->
     IF a[k] = Absent /\ b[k] = Absent THEN Absent
     ELSE MergeValue(Get(a, k), Get(b, k))]

\* a shallow overwrite of the sub-object: the child's, when it has one
MergeSubShallow(a, b) == IF a.isObj THEN Obj(a.f) ELSE Obj(b.f)

\* index.ts:122-123  merge(sourceNav, baseNav); the base always holds the
\* sub-object (DEFAULT_SCALAR_CONFIG has both, and so has every result)
MergeSub(a, b) == Obj(MergeKeys(a.f, b.f))

\* index.ts:104-125
MergeConfigNested(source, base) ==
  Cfg(MergeKeys(source.top, base.top),
      MergeSub(source.nav, base.nav),
      MergeSub(source.route, base.route))

(***************************************************************************)
(* mergeConfig, flat variant                       index.ts:437-452        *)
(***************************************************************************)
\* a routePath that the child overrides instead of extending
FlatRoutePathOverride(s, b) == Or(s, b)

\* index.ts:444-449  the routePath entry
FlatRoutePath(s, b) ==
  IF Truthy(b) /\ Truthy(s) THEN Str(b.val \o <<"/">> \o s.val) ELSE Or(s, b)

\* index.ts:449  source[k] || baseConfig[k]
FlatValue(s, b) == Or(s, b)

\* index.ts:437-452
MergeConfigFlat(source, base) ==
  Cfg([k \in DOMAIN source.top |->
         IF source.top[k] = Absent /\ base.top[k] = Absent THEN Absent
         ELSE IF k = "routePath"
              THEN FlatRoutePath(Get(source.top, k), Get(base.top, k))
              ELSE FlatValue(Get(source.top, k), Get(base.top, k))],
      NoObj(NavKeys), NoObj(RouteKeys))


(***************************************************************************)
(* Defaults                                                                *)
(***************************************************************************)
NoCfg == Cfg(EmptyObj(TopKeys), NoObj(NavKeys), NoObj(RouteKeys))

\* index.ts:25-28
DEFAULT_NAV_CONFIG ==
  Lit(NavKeys, [labelFromSpec |-> True, categoryFromPath |-> True])

\* index.ts:36-40
DEFAULT_ROUTE_CONFIG ==
  Lit(RouteKeys, [route |-> Str(<<"s","c","a","l","a","r">>),
                  routeFromSpec |-> True, routeFromPath |-> False])

\* index.ts:67-72 (paths and configurations are held by the model's own
\* variables)
DEFAULT_SCALAR_CONFIG ==
  Cfg(EmptyObj(TopKeys), Obj(DEFAULT_NAV_CONFIG), Obj(DEFAULT_ROUTE_CONFIG))

\* index.ts:399-402
DEFAULT_SCALAR_OPTIONS ==
  Cfg(Lit(TopKeys, [routeBasePath |->
        Str(<<"s","p","e","c","i","f","i","c","a","t","i","o","n","s">>)]),
      NoObj(NavKeys), NoObj(RouteKeys))

(***************************************************************************)
(* Loading one specification, nested variant       index.ts:136-204        *)
(***************************************************************************)
\* file.split(path.sep)
FileSegs(f) == Split(f, "/")

\* index.ts:152-155  (category || categoryFromPath) ? file.split(sep)[0] : undefined
NavCategory(nav, f) ==
  IF Truthy(Or(Get(nav, "category"), Get(nav, "categoryFromPath")))
  THEN Str(FileSegs(f)[1])
  ELSE Undefined

\* index.ts:150  labelFromFilename ? name : undefined
NavLabelFromFile(nav, f) ==
  IF Truthy(Get(nav, "labelFromFilename")) THEN Str(PathParse(f).name) ELSE Undefined

\* index.ts:159-167
RouteFromFile(route, f) ==
  Str(PathJoin(<< <<"/">>, OrEmpty(Get(route, "route")) >>
               \o (IF Truthy(Get(route, "routeFromPath"))
                   THEN Split(PathParse(f).dir, "/") \o <<PathParse(f).name>>
                   ELSE <<>>)))

\* index.ts:142-169  the config object loadSpecFromFile builds
LoadSpecFromFileNested(source, f) ==
  Cfg(source.top,
      Obj(Spread(source.nav.f,
                 Lit(NavKeys, [label |-> NavLabelFromFile(source.nav.f, f),
                               category |-> NavCategory(source.nav.f, f)]))),
      Obj(Spread(source.route.f,
                 Lit(RouteKeys, [route |-> RouteFromFile(source.route.f, f)]))))

\* segs.flatMap(seg => seg.split("/").map(s => _.kebabCase(s)))
RECURSIVE KebabSegs(_)
KebabSegs(segs) ==
  IF Len(segs) = 0 THEN <<>>
  ELSE LET parts == Split(segs[1], "/") IN
         [i \in DOMAIN parts |-> KebabCase(parts[i])] \o KebabSegs(Tail(segs))

\* the segments split but left as they are
RECURSIVE PlainSegs(_)
PlainSegs(segs) ==
  IF Len(segs) = 0 THEN <<>> ELSE Split(segs[1], "/") \o PlainSegs(Tail(segs))

\* index.ts:182-184  labelFromSpec ? title : label
NavLabel(nav, t) ==
  IF Truthy(Get(nav, "labelFromSpec")) THEN t ELSE Get(nav, "label")

\* a route whose segments are not kebab-cased
RouteFromContentPlain(route, t) ==
  Str(PathJoin(<< <<"/">> >> \o
        PlainSegs(<< OrEmpty(Get(route, "route")),
                     IF Truthy(Get(route, "routeFromSpec")) THEN OrEmpty(t) ELSE <<>> >>)))

\* index.ts:190-198
RouteFromContent(route, t) ==
  Str(PathJoin(<< <<"/">> >> \o
        KebabSegs(<< OrEmpty(Get(route, "route")),
                     IF Truthy(Get(route, "routeFromSpec")) THEN OrEmpty(t) ELSE <<>> >>)))

\* index.ts:177-200  what loadSpecFromContent returns for loaded content
LoadSpecFromContentNested(c, t) ==
  Cfg(c.top,
      IF c.nav.isObj
      THEN Obj(Lit(NavKeys, [label |-> NavLabel(c.nav.f, t),
                             category |-> Get(c.nav.f, "category")]))
      ELSE NoObj(NavKeys),
      Obj(Lit(RouteKeys, [route |-> RouteFromContent(c.route.f, t)])))

(***************************************************************************)
(* Loading one specification, flat variant         index.ts:463-511        *)
(***************************************************************************)
\* file.split(path.sep).reverse()[1]
ParentFolder(f) ==
  IF Len(FileSegs(f)) >= 2 THEN Str(FileSegs(f)[Len(FileSegs(f)) - 1]) ELSE Undefined

\* index.ts:478
FlatCategory(m, f) == Or(Get(m.top, "category"), ParentFolder(f))

\* index.ts:484  base.substring(0, base.lastIndexOf(ext))
BaseWithoutExt(f) ==
  LET p == PathParse(f) IN Sub(p.base, 1, LastIndexOf(p.base, p.ext))

\* index.ts:479-486
FlatRoutePathFromFile(m, f) ==
  Str(PathJoin(<< <<"/">>, OrEmpty(Get(m.top, "routePath")) >>
               \o Split(PathParse(f).dir, "/") \o <<BaseWithoutExt(f)>>))

\* index.ts:470-487  the config object loadSpecFromFile builds from the merge
LoadSpecFromFileFlat(m, f) ==
  Cfg(Spread(m.top, Lit(TopKeys, [category |-> FlatCategory(m, f),
                                   routePath |-> FlatRoutePathFromFile(m, f)])),
      NoObj(NavKeys), NoObj(RouteKeys))

\* index.ts:500-505  `/${path.join(...segments.map(kebabCase), "/")}`
FlatRoutePathFromContent(c) ==
  LET parts == Split(OrEmpty(Get(c.top, "routePath")), "/") IN
    Str(<<"/">> \o PathJoin([i \in DOMAIN parts |-> KebabCase(parts[i])] \o << <<"/">> >>))

\* index.ts:493-506  { label: config.label || title, ...config, routePath }
LoadSpecFromContentFlat(c, t) ==
  Cfg(Spread(Spread(Lit(TopKeys, [label |-> Or(Get(c.top, "label"), t)]), c.top),
             Lit(TopKeys, [routePath |-> FlatRoutePathFromContent(c)])),
      NoObj(NavKeys), NoObj(RouteKeys))


(***************************************************************************)
(* The pipeline that turns one entry of paths / configurations into a      *)
(* resolved specification.                                                 *)
(*   pc: "start" -> "constructed" -> ("merged" ->) "config" -> "resolved", *)
(*       or "threw" when a step throws.                                    *)
(***************************************************************************)
\* index.ts:309-312  options = mergeConfig(userOptions, DEFAULT_SCALAR_CONFIG)
ScalarDocusaurusNested ==
  /\ variant = "nested" /\ pc = "start"
  /\ options' = MergeConfigNested(userOptions, DEFAULT_SCALAR_CONFIG)
  /\ pc' = "constructed"
  /\ UNCHANGED <<variant, userOptions, entry, file, doc, merged, config, resolved>>
  /\ UNCHANGED <<loadVars, navVars>>

\* index.ts:603-607  loadSpecs({ ...DEFAULT_SCALAR_OPTIONS, ...userOptions })
LoadContentFlat ==
  /\ variant = "flat" /\ pc = "start"
  /\ options' = Cfg(Spread(DEFAULT_SCALAR_OPTIONS.top, userOptions.top),
                    NoObj(NavKeys), NoObj(RouteKeys))
  /\ pc' = "constructed"
  /\ UNCHANGED <<variant, userOptions, entry, file, doc, merged, config, resolved>>
  /\ UNCHANGED <<loadVars, navVars>>

\* index.ts:83  merged = mergeConfig(source, baseConfig)
LoadSpecsFromPathMerge ==
  /\ variant = "nested" /\ pc = "constructed" /\ entry.kind = "path"
  /\ merged' = MergeConfigNested(entry.cfg, options)
  /\ pc' = "merged"
  /\ UNCHANGED <<variant, userOptions, entry, file, doc, options, config, resolved>>
  /\ UNCHANGED <<loadVars, navVars>>

\* index.ts:136-170  loadSpecFromFile up to its call of loadSpecFromContent;
\* loadSpecContent (line 145) may reject
LoadSpecFromFileNestedStep ==
  /\ variant = "nested" /\ pc = "merged"
  /\ IF doc.status = "throws"
     THEN pc' = "threw" /\ UNCHANGED config
     ELSE pc' = "config" /\ config' = LoadSpecFromFileNested(merged, file)
  /\ UNCHANGED <<variant, userOptions, entry, file, doc, options, merged, resolved>>
  /\ UNCHANGED <<loadVars, navVars>>

\* index.ts:211-224  loadSpecsFromConfig's callback up to loadSpecFromContent
LoadSpecsFromConfigNestedStep ==
  /\ variant = "nested" /\ pc = "constructed" /\ entry.kind = "inline"
  /\ merged' = MergeConfigNested(entry.cfg, options)
  /\ IF doc.status = "throws"
     THEN pc' = "threw" /\ UNCHANGED config
     ELSE pc' = "config" /\ config' = merged'
  /\ UNCHANGED <<variant, userOptions, entry, file, doc, options, resolved>>
  /\ UNCHANGED <<loadVars, navVars>>

\* index.ts:173-204  loadSpecFromContent
LoadSpecFromContentNestedStep ==
  /\ variant = "nested" /\ pc = "config"
  /\ IF doc.status = "ok"
     THEN pc' = "resolved" /\ resolved' = LoadSpecFromContentNested(config, doc.title)
     ELSE pc' = "threw" /\ UNCHANGED resolved
  /\ UNCHANGED <<variant, userOptions, entry, file, doc, options, merged, config>>
  /\ UNCHANGED <<loadVars, navVars>>

\* index.ts:463-488  loadSpecFromFile up to its call of loadSpecFromContent;
\* fsp.readFile (line 473) may reject
LoadSpecFromFileFlatStep ==
  /\ variant = "flat" /\ pc = "constructed" /\ entry.kind = "path"
  /\ merged' = MergeConfigFlat(entry.cfg, options)
  /\ IF doc.status = "throws"
     THEN pc' = "threw" /\ UNCHANGED config
     ELSE pc' = "config" /\ config' = LoadSpecFromFileFlat(merged', file)
  /\ UNCHANGED <<variant, userOptions, entry, file, doc, options, resolved>>
  /\ UNCHANGED <<loadVars, navVars>>

\* index.ts:518-529  loadSpecsFromConfig's callback up to loadSpecFromContent
LoadSpecsFromConfigFlatStep ==
  /\ variant = "flat" /\ pc = "constructed" /\ entry.kind = "inline"
  /\ merged' = MergeConfigFlat(entry.cfg, options)
  /\ IF doc.status = "throws"
     THEN pc' = "threw" /\ UNCHANGED config
     ELSE pc' = "config" /\ config' = merged'
  /\ UNCHANGED <<variant, userOptions, entry, file, doc, options, resolved>>
  /\ UNCHANGED <<loadVars, navVars>>

\* index.ts:491-511  loadSpecFromContent
LoadSpecFromContentFlatStep ==
  /\ variant = "flat" /\ pc = "config"
  /\ IF doc.status = "ok"
     THEN pc' = "resolved" /\ resolved' = LoadSpecFromContentFlat(config, doc.title)
     ELSE pc' = "threw" /\ UNCHANGED resolved
  /\ UNCHANGED <<variant, userOptions, entry, file, doc, options, merged, config>>
  /\ UNCHANGED <<loadVars, navVars>>

NextFile ==
  \/ ScalarDocusaurusNested
  \/ LoadContentFlat
  \/ LoadSpecsFromPathMerge
  \/ LoadSpecFromFileNestedStep
  \/ LoadSpecsFromConfigNestedStep
  \/ LoadSpecFromContentNestedStep
  \/ LoadSpecFromFileFlatStep
  \/ LoadSpecsFromConfigFlatStep
  \/ LoadSpecFromContentFlatStep

(***************************************************************************)
(* mergeConfig applied to a child and a parent configuration.              *)
(***************************************************************************)
\* index.ts:104-125 applied to (entry.cfg, options)
ApplyMergeNested ==
  /\ variant = "nested" /\ pc = "merge"
  /\ merged' = MergeConfigNested(entry.cfg, options)
  /\ pc' = "merged"
  /\ UNCHANGED <<variant, userOptions, entry, file, doc, options, config, resolved>>
  /\ UNCHANGED <<loadVars, navVars>>

\* index.ts:437-452 applied to (entry.cfg, options)
ApplyMergeFlat ==
  /\ variant = "flat" /\ pc = "merge"
  /\ merged' = MergeConfigFlat(entry.cfg, options)
  /\ pc' = "merged"
  /\ UNCHANGED <<variant, userOptions, entry, file, doc, options, config, resolved>>
  /\ UNCHANGED <<loadVars, navVars>>

NextMerge == ApplyMergeNested \/ ApplyMergeFlat


(***************************************************************************)
(* Inputs.                                                                 *)
(***************************************************************************)
sL       == <<"L">>
sC       == <<"C">>
sDocs    == <<"d","o","c","s">>
sApi     == <<"a","p","i">>
sMyApiV2 == <<"M","y"," ","A","P","I"," ","v","2">>
sUpDir   == <<"a","/",".",".","/","b">>
fTop      == <<"a","p","i",".","y","a","m","l">>
fPetstore == <<"p","e","t","s","t","o","r","e","/","o","p","e","n","a","p","i",
               ".","j","s","o","n">>
fDeep     == <<"v","1","/","p","e","t","s","/","m","y","_","A","p","i",".","j",
               "s","o","n">>

\* the values a display option is given
OptVals == {Absent, Undefined, Null, False, True, Zero, Str(<<>>), Str(<<"x">>)}
DefinedVals == {v \in OptVals : Defined(v)}

\* what the load of a specification gives
NoDoc == [status |-> "ok", title |-> Undefined]
DocOk(t) == [status |-> "ok", title |-> t]

PathEntry(c)   == [kind |-> "path", cfg |-> c]
InlineEntry(c) == [kind |-> "inline", cfg |-> c]

\* the options the plugin works with, given the user's
EffectiveOptions(v, u) ==
  IF v = "nested" THEN MergeConfigNested(u, DEFAULT_SCALAR_CONFIG)
  ELSE Cfg(Spread(DEFAULT_SCALAR_OPTIONS.top, u.top), NoObj(NavKeys), NoObj(RouteKeys))

LoadIdle ==
  /\ sources = <<>> /\ inline = <<>> /\ srcState = <<>> /\ fileState = <<>>
  /\ cfgState = <<>> /\ phase = "idle" /\ content = <<>> /\ log = {}
  /\ siteNavbar = <<>> /\ navbar = <<>> /\ routes = <<>> /\ cursor = 0

MergeRoutes == {Absent, Undefined} \cup {Str(s) : s \in Strs({"a", "/"}, MaxLen)}

MergeNavSubs ==
  {NoObj(NavKeys)} \cup
  {Obj(Lit(NavKeys, [label |-> l, labelFromSpec |-> f, category |-> c])) :
     l \in {Absent, Undefined, Str(<<>>), Str(sL)},
     f \in {Absent, False, True},
     c \in {Absent, Str(sC)}}

MergeRouteSubs ==
  {NoObj(RouteKeys)} \cup
  {Obj(Lit(RouteKeys, [route |-> r, routeFromPath |-> f])) :
     r \in MergeRoutes, f \in {Absent, False, True}}

\* configurations that differ in their display options
MergeTops ==
  {Cfg(Lit(TopKeys, [hideModels |-> a, showSidebar |-> b]),
       NoObj(NavKeys), NoObj(RouteKeys)) : a \in OptVals, b \in {Absent, False, True}}

\* nested configurations that differ in one sub-object
MergeNavCfgs   == {Cfg(EmptyObj(TopKeys), n, NoObj(RouteKeys)) : n \in MergeNavSubs}
MergeRouteCfgs == {Cfg(EmptyObj(TopKeys), NoObj(NavKeys), r) : r \in MergeRouteSubs}

\* flat configurations that differ in label and routePath
MergeFlatCfgs ==
  {Cfg(Lit(TopKeys, [label |-> l, routePath |-> r]), NoObj(NavKeys), NoObj(RouteKeys)) :
     l \in {Absent, Undefined, Str(<<>>), Str(sL)}, r \in MergeRoutes}

\* configurations in which every field has a defined value
FullNested ==
  {Cfg(Lit(TopKeys, [hideModels |-> h, showSidebar |-> True]),
       Obj(Lit(NavKeys, [label |-> l, category |-> Str(sC), labelFromSpec |-> f,
                         categoryFromPath |-> True, labelFromFilename |-> False])),
       Obj(Lit(RouteKeys, [route |-> r, routeFromSpec |-> f, routeFromPath |-> g]))) :
     h \in DefinedVals, l \in {Str(<<>>), Str(sL)}, f \in {False, True},
     g \in {False, True}, r \in {v \in MergeRoutes : Defined(v)}}

FullFlat ==
  {Cfg(Lit(TopKeys, [hideModels |-> h, showSidebar |-> s, label |-> l,
                     category |-> Str(sC), routePath |-> r,
                     routeBasePath |-> Str(sDocs)]),
       NoObj(NavKeys), NoObj(RouteKeys)) :
     h \in DefinedVals, s \in {False, True}, l \in {Str(<<>>), Str(sL)},
     r \in {v \in MergeRoutes : Defined(v)}}

\* every field the configuration owns has a defined value
FullyDefined(c) ==
  /\ \A k \in OwnKeys(c.top) : Defined(c.top[k])
  /\ \A k \in OwnKeys(c.nav.f) : Defined(c.nav.f[k])
  /\ \A k \in OwnKeys(c.route.f) : Defined(c.route.f[k])

\* the (variant, user options, child) triples mergeConfig is applied to
MergeInputs ==
  [v : {"nested", "flat"}, u : MergeTops, c : MergeTops]
  \cup [v : {"nested"}, u : MergeNavCfgs, c : MergeNavCfgs]
  \cup [v : {"nested"}, u : MergeRouteCfgs, c : MergeRouteCfgs]
  \cup [v : {"flat"}, u : MergeFlatCfgs, c : MergeFlatCfgs]
  \cup {[v |-> "nested", u |-> c, c |-> c] : c \in FullNested}
  \cup {[v |-> "flat", u |-> c, c |-> c] : c \in FullFlat}

InitMerge ==
  /\ \E i \in MergeInputs :
       /\ variant = i.v
       /\ userOptions = i.u
       /\ options = EffectiveOptions(i.v, i.u)
       /\ entry = PathEntry(i.c)
  /\ pc = "merge"
  /\ file = <<>> /\ doc = NoDoc
  /\ merged = NoCfg /\ config = NoCfg /\ resolved = NoCfg
  /\ LoadIdle

SpecMerge == InitMerge /\ [][NextMerge]_vars

(***************************************************************************)
(* Properties of mergeConfig.                                              *)
(***************************************************************************)
\* the child's value if defined, else the parent's
ChildWins(child, parent, k) ==
  IF Defined(child[k]) THEN child[k] ELSE Get(parent, k)

\* C1: the nested mergeConfig gives every top-level key the child's value
\* when the child defines it (false, 0, "" and null included), and the
\* parent's value otherwise.
C1_TopLevelChildWins ==
  (variant = "nested" /\ pc = "merged") =>
    \A k \in OwnKeys(entry.cfg.top) \cup OwnKeys(options.top) :
      merged.top[k] = ChildWins(entry.cfg.top, options.top, k)

C1_Witness ==
  /\ variant = "nested" /\ pc = "merged"
  /\ entry.cfg.top["hideModels"] = False
  /\ options.top["hideModels"] = True
  /\ merged.top["hideModels"] = False
  /\ entry.cfg.top["showSidebar"] = Absent
  /\ merged.top["showSidebar"] = True

\* C2: the nested mergeConfig merges nav and route key by key with the same
\* rule; a child with some or none of the keys keeps the parent's others.
C2_SubObjectsKeyByKey ==
  (variant = "nested" /\ pc = "merged") =>
    /\ merged.nav.isObj /\ merged.route.isObj
    /\ \A k \in NavKeys :
         merged.nav.f[k] =
           IF k \in OwnKeys(entry.cfg.nav.f) \cup OwnKeys(options.nav.f)
           THEN ChildWins(entry.cfg.nav.f, options.nav.f, k) ELSE Absent
    /\ \A k \in RouteKeys :
         merged.route.f[k] =
           IF k \in OwnKeys(entry.cfg.route.f) \cup OwnKeys(options.route.f)
           THEN ChildWins(entry.cfg.route.f, options.route.f, k) ELSE Absent

C2_Witness ==
  /\ variant = "nested" /\ pc = "merged"
  /\ entry.cfg.nav.isObj
  /\ OwnKeys(entry.cfg.nav.f) = {"category"}
  /\ options.nav.f["label"] = Str(sL)
  /\ merged.nav.f["label"] = Str(sL)
  /\ merged.nav.f["category"] = Str(sC)
  /\ merged.nav.f["labelFromSpec"] = True

\* C3 as claimed: both merges are idempotent on fully-defined configurations.
C3_IdempotentBothVariants ==
  (pc = "merged" /\ entry.cfg = options /\ FullyDefined(options)) => merged = options

\* C3, amended: the nested merge is idempotent on fully-defined
\* configurations; the flat merge is idempotent on every field but
\* routePath, which becomes routePath + "/" + routePath when it is non-empty.
C3_IdempotentExceptRoutePath ==
  (pc = "merged" /\ entry.cfg = options /\ FullyDefined(options)) =>
    /\ variant = "nested" => merged = options
    /\ variant = "flat" =>
         /\ \A k \in TopKeys \ {"routePath"} : merged.top[k] = options.top[k]
         /\ merged.top["routePath"] =
              IF Truthy(options.top["routePath"])
              THEN Str(options.top["routePath"].val \o <<"/">>
                       \o options.top["routePath"].val)
              ELSE options.top["routePath"]

C3_Witness ==
  /\ pc = "merged" /\ entry.cfg = options /\ FullyDefined(options)
  /\ variant = "flat"
  /\ options.top["routePath"] = Str(<<"a">>)
  /\ merged.top["routePath"] = Str(<<"a", "/", "a">>)
  /\ merged.top["hideModels"] = False


(***************************************************************************)
(* Inputs of the single-file pipeline.                                     *)
(***************************************************************************)
Files == {fTop, fPetstore, fDeep}

RouteAlphabet == {"a", "/", ".", "_"}
TitleAlphabet == {"a", "B", "2", " ", "/"}

RouteStrs == {Absent, Str(sUpDir)} \cup {Str(s) : s \in Strs(RouteAlphabet, MaxLen)}
FewRoutes == {Absent, Str(sDocs), Str(<<"b", "_", "c">>)}
TitleStrs == {Undefined, Str(sMyApiV2)} \cup {Str(s) : s \in Strs(TitleAlphabet, MaxLen)}
FewTitles == {Undefined, Str(<<>>), Str(sApi)}

NestedRouteCfg(r, fs, fp) ==
  Cfg(EmptyObj(TopKeys), NoObj(NavKeys),
      Obj(Lit(RouteKeys, [route |-> r, routeFromSpec |-> fs, routeFromPath |-> fp])))

FlatRouteCfg(r) ==
  Cfg(Lit(TopKeys, [routePath |-> r]), NoObj(NavKeys), NoObj(RouteKeys))

Kinds == {"path", "inline"}
Entry(kind, c) == [kind |-> kind, cfg |-> c]

\* display options set globally and on the entry
DisplayInputs ==
  [v : {"nested", "flat"}, u : MergeTops,
   e : {Entry(k, c) : k \in Kinds, c \in MergeTops},
   f : {fPetstore}, d : {DocOk(Str(sApi))}]

\* routes set globally and on the entry
RoutePairs == (RouteStrs \X FewRoutes) \cup (FewRoutes \X RouteStrs)

NestedRouteInputs ==
  {[v |-> "nested",
    u |-> NestedRouteCfg(p[1], fs, fp),
    e |-> Entry(k, NestedRouteCfg(p[2], Absent, Absent)),
    f |-> f, d |-> DocOk(Str(sApi))] :
   p \in RoutePairs, fs \in {False, True}, fp \in {False, True},
   k \in Kinds, f \in {fDeep}}

FlatRouteInputs ==
  {[v |-> "flat", u |-> FlatRouteCfg(p[1]), e |-> Entry(k, FlatRouteCfg(p[2])),
    f |-> f, d |-> DocOk(Str(sApi))] :
   p \in RoutePairs, k \in Kinds, f \in {fTop, fPetstore}}

\* titles under a configured base route
TitleInputs ==
  {[v |-> "nested", u |-> NestedRouteCfg(r, fs, False),
    e |-> Entry(k, NoCfg), f |-> fTop, d |-> DocOk(t)] :
   r \in {Absent, Str(sDocs)}, fs \in {Absent, False, True}, k \in Kinds,
   t \in TitleStrs}

\* labels and categories
NestedNavInputs ==
  {[v |-> "nested",
    u |-> Cfg(EmptyObj(TopKeys), un, NoObj(RouteKeys)),
    e |-> Entry(k, Cfg(EmptyObj(TopKeys),
                       Obj(Lit(NavKeys, [label |-> l, labelFromSpec |-> ls,
                                         labelFromFilename |-> lf, category |-> c,
                                         categoryFromPath |-> cp])),
                       NoObj(RouteKeys))),
    f |-> f, d |-> DocOk(t)] :
   un \in {NoObj(NavKeys), Obj(Lit(NavKeys, [labelFromSpec |-> False])),
           Obj(Lit(NavKeys, [label |-> Str(sDocs), categoryFromPath |-> False]))},
   k \in Kinds,
   l \in {Absent, Str(<<>>), Str(sL)}, ls \in {Absent, False, True},
   lf \in {Absent, False, True}, c \in {Absent, Str(<<>>), Str(sC)},
   cp \in {Absent, False, True}, f \in Files, t \in {Undefined, Str(sApi)}}

FlatNavInputs ==
  {[v |-> "flat",
    u |-> Cfg(Lit(TopKeys, [label |-> ul, category |-> uc]), NoObj(NavKeys), NoObj(RouteKeys)),
    e |-> Entry(k, Cfg(Lit(TopKeys, [label |-> l, category |-> c]),
                       NoObj(NavKeys), NoObj(RouteKeys))),
    f |-> f, d |-> DocOk(t)] :
   ul \in {Absent, Str(sDocs)}, uc \in {Absent, Str(sApi)}, k \in Kinds,
   l \in {Absent, Undefined, Str(<<>>), Str(sL)},
   c \in {Absent, Undefined, Str(<<>>), Str(sC)},
   f \in Files, t \in FewTitles}

\* specifications whose content does not load
FailingInputs ==
  [v : {"nested", "flat"}, u : {NoCfg}, e : {Entry(k, NoCfg) : k \in Kinds},
   f : Files,
   d : {[status |-> s, title |-> Undefined] : s \in {"empty", "throws"}}]

FileInputs ==
  DisplayInputs \cup NestedRouteInputs \cup FlatRouteInputs \cup TitleInputs
  \cup NestedNavInputs \cup FlatNavInputs \cup FailingInputs

InitFile ==
  /\ \E i \in FileInputs :
       /\ variant = i.v /\ userOptions = i.u /\ entry = i.e
       /\ file = i.f /\ doc = i.d
  /\ pc = "start"
  /\ options = NoCfg /\ merged = NoCfg /\ config = NoCfg /\ resolved = NoCfg
  /\ LoadIdle

SpecFile == InitFile /\ [][NextFile]_vars


(***************************************************************************)
(* Properties of the resolved specification.                               *)
(***************************************************************************)
\* the route of a resolved specification, as text
RouteText(c) ==
  IF variant = "nested" THEN c.route.f["route"].val ELSE c.top["routePath"].val

\* the route configured at a level, as a JS value
RouteAt(c) ==
  IF variant = "nested" THEN Get(c.route.f, "route") ELSE Get(c.top, "routePath")

\* sub occurs in s as a contiguous run
Contains(s, sub) ==
  \E i \in 0..(Len(s) - Len(sub)) : Sub(s, i + 1, i + Len(sub)) = sub

\* a non-empty route segment of lower-case letters: kebab-casing and path
\* normalisation leave it as it is
PlainSegment(v) ==
  v.type = "string" /\ v.val # <<>> /\ \A i \in DOMAIN v.val : IsLower(v.val[i])

DisplayKeys == {"hideModels", "showSidebar"}

\* C4: in the flat variant a display option set on an entry of paths or
\* configurations overrides the global one, whatever value the entry sets
\* (false and "" included).
C4_EntryOverridesGlobal ==
  (variant = "flat" /\ pc = "resolved") =>
    \A k \in DisplayKeys :
      (Defined(entry.cfg.top[k]) /\ Defined(userOptions.top[k])) =>
        resolved.top[k] = entry.cfg.top[k]

\* C5: a route set globally and on the entry gives every spec of that entry
\* a route holding the global segment, "/", then the entry's segment.
C5_RoutesOfBothLevelsJoined ==
  (pc = "resolved" /\ PlainSegment(RouteAt(userOptions))
     /\ PlainSegment(RouteAt(entry.cfg))) =>
    Contains(RouteText(resolved),
             RouteAt(userOptions).val \o <<"/">> \o RouteAt(entry.cfg).val)

\* the label the precedence explicit > title > file name > undefined gives
LabelByPrecedence(nav, t, f) ==
  IF Truthy(Get(nav, "label")) THEN Get(nav, "label")
  ELSE IF Truthy(Get(nav, "labelFromSpec")) /\ Truthy(t) THEN t
  ELSE IF Truthy(Get(nav, "labelFromFilename")) THEN Str(PathParse(f).name)
  ELSE Undefined

\* C6: the label of a spec loaded from a file is the explicit label if set,
\* else the title when labelFromSpec is on, else the file's base name when
\* labelFromFilename is on, else undefined.
C6_LabelPrecedence ==
  (variant = "nested" /\ entry.kind = "path" /\ pc = "resolved") =>
    Get(resolved.nav.f, "label") = LabelByPrecedence(merged.nav.f, doc.title, file)

\* C7: the category of a spec loaded from a file is the explicit category
\* whenever one is configured; else the file's top-level path segment when
\* categoryFromPath is on; else undefined.
C7_CategoryPrecedence ==
  (variant = "nested" /\ entry.kind = "path" /\ pc = "resolved") =>
    Get(resolved.nav.f, "category") =
      IF Truthy(Get(merged.nav.f, "category")) THEN Get(merged.nav.f, "category")
      ELSE IF Truthy(Get(merged.nav.f, "categoryFromPath")) THEN Str(FileSegs(file)[1])
      ELSE Undefined

\* each segment kebab-cased
KebabEach(segs) == [i \in DOMAIN segs |-> KebabCase(segs[i])]

\* the directory parts and the base name of the file
PathParts(f) == Split(PathParse(f).dir, "/") \o <<PathParse(f).name>>

\* the title's segments, when the route takes the title
TitleParts ==
  IF variant = "nested" /\ Truthy(Get(merged.route.f, "routeFromSpec"))
  THEN Split(OrEmpty(doc.title), "/") ELSE <<>>

\* the file's segments, when the route takes the file's path
FileParts ==
  IF entry.kind = "inline" THEN <<>>
  ELSE IF variant = "flat" \/ Truthy(Get(merged.route.f, "routeFromPath"))
  THEN PathParts(file) ELSE <<>>

\* the segments of the configured route, as written
ConfiguredParts == Split(OrEmpty(RouteAt(merged)), "/")

\* the segments of the configured route; loadSpecFromFile's path.join
\* resolves "." and ".." in them
ConfiguredPartsNormalized ==
  IF entry.kind = "path" THEN NormalizeSegs(ConfiguredParts, <<>>, FALSE)
  ELSE ConfiguredParts

Slashed(segs) == <<"/">> \o JoinWith(NonEmpty(segs), <<"/">>)

IsExample ==
  /\ variant = "nested" /\ RouteAt(merged) = Str(sDocs) /\ doc.title = Str(sMyApiV2)
  /\ Truthy(Get(merged.route.f, "routeFromSpec")) /\ FileParts = <<>>

\* C8 as claimed: the route is "/" and the kebab-cased segments (configured
\* route, path parts, title) joined by "/"; 'My API v2' under 'docs' gives
\* '/docs/my-api-v2'.
C8_RouteAsClaimed ==
  pc = "resolved" =>
    /\ RouteText(resolved) =
         Slashed(KebabEach(ConfiguredParts \o FileParts \o TitleParts))
    /\ IsExample =>
         RouteText(resolved) =
           <<"/","d","o","c","s","/","m","y","-","a","p","i","-","v","2">>

\* C8, amended: the route is "/" and the non-empty kebab-cased segments
\* joined by "/", where the configured route of a spec loaded from a file
\* has its "." and ".." segments resolved first, the flat variant takes no
\* title and ends the route with one more "/", and kebab-casing is lodash's
\* (a digit run is a word of its own): 'My API v2' under 'docs' gives
\* '/docs/my-api-v-2'.
C8_RouteShape ==
  pc = "resolved" =>
    /\ RouteText(resolved) =
         Slashed(KebabEach(ConfiguredPartsNormalized \o FileParts \o TitleParts))
         \o (IF variant = "flat" THEN <<"/">> ELSE <<>>)
    /\ IsExample =>
         RouteText(resolved) =
           <<"/","d","o","c","s","/","m","y","-","a","p","i","-","v","-","2">>

C8_Witness ==
  /\ pc = "resolved" /\ IsExample
  /\ RouteText(resolved) =
       <<"/","d","o","c","s","/","m","y","-","a","p","i","-","v","-","2">>


(***************************************************************************)
(* loadContent / loadSpecs: the fan-out over path sources, their files     *)
(* and the inline configurations.        index.ts:74-102, 206-261 (nested) *)
(*                                       index.ts:404-435, 513-560 (flat)  *)
(*   phase: "start" -> "paths" -> ("configs" ->) "done", or "rejected"     *)
(*          when the promise loadContent returns rejects.                  *)
(***************************************************************************)
sSpecsDir == <<".","/","s","p","e","c","s">>

FileNames == <<fPetstore, fTop, fDeep>>

\* a path source: what its path is on disk, and the files its globs match
DirSource(n)  == [kind |-> "dir", path |-> sSpecsDir, files |-> SubSeq(FileNames, 1, n),
                  cfg |-> NoCfg]
FileSource    == [kind |-> "file", path |-> fTop, files |-> <<>>, cfg |-> NoCfg]
MissingSource == [kind |-> "missing", path |-> sSpecsDir, files |-> <<>>, cfg |-> NoCfg]

SourceSet == {DirSource(n) : n \in 0..MaxFiles} \cup {FileSource, MissingSource}

\* an inline configuration: what its spec holds ("both": content and url)
InlineSet == {[cfg |-> NoCfg, spec |-> s] : s \in {"content", "both", "url", "none"}}

\* a content that counts only when no url is given
ContentWithoutUrl(c) == c.spec = "content"

\* config.spec?.content / config.spec?.url is truthy
HasContent(c) == c.spec \in {"content", "both"}
HasUrl(c)     == c.spec \in {"url", "both"}

\* what a rejected load rejected with
NoError    == "none"
NotLoaded  == "Specification content has not been loaded"
FetchError == "fetch failed"

SourceLists == {<<>>} \cup {<<a>> : a \in SourceSet}
               \cup {<<a, b>> : a \in SourceSet, b \in {DirSource(1), MissingSource}}
InlineLists == {<<>>} \cup {<<c>> : c \in InlineSet}
               \cup {<<c, d>> : c \in {[cfg |-> NoCfg, spec |-> "url"]}, d \in InlineSet}

\* a task of loadSpecsFromConfig: from = where its content came from,
\* fetched = the url was requested, err = what it rejected with
Task(st, spec, from, fetched, err) ==
  [st |-> st, spec |-> spec, from |-> from, fetched |-> fetched, err |-> err]

(***************************************************************************)
(* The navbar of the site.                                                 *)
(***************************************************************************)
\* { label, to, position: "left" }: an entry of the navbar or of a dropdown
SpecNav(label, to) == [label |-> label, to |-> to]

\* a top-level navbar item that is not a dropdown
NavLink(label, to) == [type |-> "default", label |-> label, to |-> to, items |-> <<>>]

\* { type: "dropdown", label, items, position: "left" }
Dropdown(label, items) == [type |-> "dropdown", label |-> label, to |-> <<>>, items |-> items]

sPetstore == <<"p","e","t","s","t","o","r","e">>
sOld      == <<"/","o","l","d">>

\* the navbars a site starts with: none, one whose dropdown has the label of
\* a category and a child of its own, one with an empty dropdown and a link
\* that has the label of a category
SiteNavbars ==
  { <<>>,
    << NavLink(sDocs, <<"/">> \o sDocs), Dropdown(sPetstore, <<SpecNav(sL, sOld)>>) >>,
    << Dropdown(sPetstore, <<>>), NavLink(sPetstore, sOld) >> }

NoTask == Task("idle", NoCfg, "none", FALSE, NoError)

InitLoad ==
  /\ variant \in {"nested", "flat"}
  /\ userOptions = NoCfg
  /\ options = IF variant = "nested" THEN EffectiveOptions(variant, userOptions) ELSE NoCfg
  /\ entry = PathEntry(NoCfg) /\ file = <<>> /\ doc = NoDoc /\ pc = "idle"
  /\ merged = NoCfg /\ config = NoCfg /\ resolved = NoCfg
  /\ sources \in SourceLists
  /\ inline \in InlineLists
  /\ srcState = [i \in DOMAIN sources |-> "idle"]
  /\ fileState = [i \in DOMAIN sources |-> <<>>]
  /\ cfgState = [k \in DOMAIN inline |-> NoTask]
  /\ phase = "start"
  /\ content = <<>>
  /\ log = {}
  /\ siteNavbar \in SiteNavbars
  /\ navbar = siteNavbar
  /\ routes = <<>>
  /\ cursor = 0

\* the titles of the specifications on disk
LoadTitles == {Undefined, Str(sApi)}

\* loadSpecFromFile(merged, file) for a file whose content loads
ResolvedFromFile(src, f, t) ==
  IF variant = "nested"
  THEN LoadSpecFromContentNested(
         LoadSpecFromFileNested(MergeConfigNested(src.cfg, options), f), t)
  ELSE LoadSpecFromContentFlat(
         LoadSpecFromFileFlat(MergeConfigFlat(src.cfg, options), f), t)

\* loadSpecFromContent(merged) for an inline configuration whose content loads
ResolvedFromConfig(c, t) ==
  IF variant = "nested"
  THEN LoadSpecFromContentNested(MergeConfigNested(c.cfg, options), t)
  ELSE LoadSpecFromContentFlat(MergeConfigFlat(c.cfg, options), t)

\* the specs of the tasks that fulfilled with one, in order
RECURSIVE SpecsOf(_)
SpecsOf(tasks) ==
  IF Len(tasks) = 0 THEN <<>>
  ELSE (IF tasks[1].st = "ok" THEN <<tasks[1].spec>> ELSE <<>>) \o SpecsOf(Tail(tasks))

\* (await Promise.all(...)).flat() over the path sources
RECURSIVE FlatSpecs(_)
FlatSpecs(perSource) ==
  IF Len(perSource) = 0 THEN <<>>
  ELSE SpecsOf(perSource[1]) \o FlatSpecs(Tail(perSource))

\* index.ts:229-247 / 534-548 (603-607)  loadContent calls loadSpecs, which
\* starts one callback per path source; paths === false and paths = [] both
\* start none
LoadSpecs ==
  /\ phase = "start"
  /\ phase' = "paths"
  /\ options' = IF variant = "flat" THEN EffectiveOptions(variant, userOptions) ELSE options
  /\ srcState' = [i \in DOMAIN sources |-> "stat"]
  /\ UNCHANGED <<variant, userOptions, entry, file, doc, pc, merged, config, resolved>>
  /\ UNCHANGED <<sources, inline, fileState, cfgState, content, log>>
  /\ UNCHANGED navVars

\* the files a source's callback maps over once the source is found
StartFiles(i, names) ==
  /\ srcState' = [srcState EXCEPT ![i] = "loading"]
  /\ fileState' = [fileState EXCEPT ![i] = [j \in DOMAIN names |-> [st |-> "pending", spec |-> NoCfg]]]

\* index.ts:81-93  fsp.stat(source.path), then the files: globby's for a
\* directory, the path itself for a file; stat rejects when nothing is there
StatSource(i) ==
  /\ variant = "nested" /\ phase # "start" /\ srcState[i] = "stat"
  /\ IF sources[i].kind = "missing"
     THEN srcState' = [srcState EXCEPT ![i] = "rejected"] /\ UNCHANGED fileState
     ELSE StartFiles(i, IF sources[i].kind = "dir" THEN sources[i].files
                        ELSE <<sources[i].path>>)
  /\ UNCHANGED <<variant, userOptions, entry, file, doc, pc, options, merged, config, resolved>>
  /\ UNCHANGED <<sources, inline, cfgState, phase, content, log>>
  /\ UNCHANGED navVars

\* index.ts:411, 454-461  findSpecFiles: globby under cwd = source.path gives
\* the matches, none when the directory does not exist; with a file as cwd it
\* gives none or rejects
FindSpecFiles(i) ==
  /\ variant = "flat" /\ phase # "start" /\ srcState[i] = "stat"
  /\ \/ StartFiles(i, sources[i].files)
     \/ /\ sources[i].kind = "file"
        /\ srcState' = [srcState EXCEPT ![i] = "rejected"]
        /\ UNCHANGED fileState
  /\ UNCHANGED <<variant, userOptions, entry, file, doc, pc, options, merged, config, resolved>>
  /\ UNCHANGED <<sources, inline, cfgState, phase, content, log>>
  /\ UNCHANGED navVars

FileName(i, j) ==
  IF sources[i].kind = "dir" THEN sources[i].files[j] ELSE sources[i].path

\* index.ts:93, 136-171  loadSpecFromFile(merged, file): fulfils with the
\* resolved spec, or rejects when the content does not load
LoadFileNested(i, j) ==
  /\ variant = "nested" /\ fileState[i][j].st = "pending"
  /\ \/ \E t \in LoadTitles :
          fileState' = [fileState EXCEPT ![i][j] =
                          [st |-> "ok", spec |-> ResolvedFromFile(sources[i], FileName(i, j), t)]]
     \/ fileState' = [fileState EXCEPT ![i][j] = [st |-> "rejected", spec |-> NoCfg]]
  /\ UNCHANGED <<variant, userOptions, entry, file, doc, pc, options, merged, config, resolved>>
  /\ UNCHANGED <<sources, inline, srcState, cfgState, phase, content, log>>
  /\ UNCHANGED navVars

\* index.ts:414-425  loadSpecFromFile inside try/catch: a failure is logged
\* as a warning and gives [] for the file
LoadFileFlat(i, j) ==
  /\ variant = "flat" /\ fileState[i][j].st = "pending"
  /\ \/ /\ \E t \in LoadTitles :
            fileState' = [fileState EXCEPT ![i][j] =
                            [st |-> "ok", spec |-> ResolvedFromFile(sources[i], FileName(i, j), t)]]
        /\ UNCHANGED log
     \/ /\ fileState' = [fileState EXCEPT ![i][j] = [st |-> "skipped", spec |-> NoCfg]]
        /\ log' = log \cup {[level |-> "warn", what |-> "load failed", at |-> <<i, j>>]}
  /\ UNCHANGED <<variant, userOptions, entry, file, doc, pc, options, merged, config, resolved>>
  /\ UNCHANGED <<sources, inline, srcState, cfgState, phase, content>>
  /\ UNCHANGED navVars

\* index.ts:84-98 / 412-431  the inner Promise.all: fulfilled once every file
\* is, with an info line; rejected as soon as one file's load rejects
SettleSource(i) ==
  /\ srcState[i] = "loading"
  /\ \/ /\ \A j \in DOMAIN fileState[i] : fileState[i][j].st \in {"ok", "skipped"}
        /\ srcState' = [srcState EXCEPT ![i] = "resolved"]
        /\ log' = log \cup {[level |-> "info", what |-> "loaded from path", at |-> <<i>>]}
     \/ /\ \E j \in DOMAIN fileState[i] : fileState[i][j].st = "rejected"
        /\ srcState' = [srcState EXCEPT ![i] = "rejected"]
        /\ UNCHANGED log
  /\ UNCHANGED <<variant, userOptions, entry, file, doc, pc, options, merged, config, resolved>>
  /\ UNCHANGED <<sources, inline, fileState, cfgState, phase, content>>
  /\ UNCHANGED navVars

\* index.ts:247-260 / 548-559  the outer Promise.all over the sources settles;
\* loadSpecs goes on to the inline configurations, or returns
SettlePaths ==
  /\ phase = "paths"
  /\ \/ /\ \A i \in DOMAIN sources : srcState[i] = "resolved"
        /\ IF inline = <<>>
           THEN /\ phase' = "done"
                /\ content' = FlatSpecs(fileState)
                /\ UNCHANGED cfgState
           ELSE /\ phase' = "configs"
                /\ cfgState' = [k \in DOMAIN inline |->
                                  Task("pending", NoCfg, "none", FALSE, NoError)]
                /\ UNCHANGED content
     \/ /\ \E i \in DOMAIN sources : srcState[i] = "rejected"
        /\ phase' = "rejected"
        /\ UNCHANGED <<cfgState, content>>
  /\ UNCHANGED <<variant, userOptions, entry, file, doc, pc, options, merged, config, resolved>>
  /\ UNCHANGED <<sources, inline, srcState, fileState, log>>
  /\ UNCHANGED navVars

\* index.ts:211-225 / 518-530  one inline configuration: spec.content when
\* truthy; else, with a url, what the url gives (a document, nothing, or a
\* rejection of the request); else undefined.  loadSpecFromContent throws
\* NotLoaded when it is handed no content.
LoadConfig(k) ==
  /\ cfgState[k].st = "pending"
  /\ \/ /\ HasContent(inline[k])
        /\ \E t \in LoadTitles :
             cfgState' = [cfgState EXCEPT ![k] =
                            Task("ok", ResolvedFromConfig(inline[k], t), "content",
                                 FALSE, NoError)]
     \/ /\ ~HasContent(inline[k]) /\ HasUrl(inline[k])
        /\ \/ \E t \in LoadTitles :
                cfgState' = [cfgState EXCEPT ![k] =
                               Task("ok", ResolvedFromConfig(inline[k], t), "url",
                                    TRUE, NoError)]
           \/ cfgState' = [cfgState EXCEPT ![k] =
                             Task("rejected", NoCfg, "none", TRUE, NotLoaded)]
           \/ cfgState' = [cfgState EXCEPT ![k] =
                             Task("rejected", NoCfg, "none", TRUE, FetchError)]
     \/ /\ ~HasContent(inline[k]) /\ ~HasUrl(inline[k])
        /\ cfgState' = [cfgState EXCEPT ![k] =
                          Task("rejected", NoCfg, "none", FALSE, NotLoaded)]
  /\ UNCHANGED <<variant, userOptions, entry, file, doc, pc, options, merged, config, resolved>>
  /\ UNCHANGED <<sources, inline, srcState, fileState, phase, content, log>>
  /\ UNCHANGED navVars

\* index.ts:257-260 / 556-559  Promise.all over the inline configurations
SettleConfigs ==
  /\ phase = "configs"
  /\ \/ /\ \A k \in DOMAIN inline : cfgState[k].st = "ok"
        /\ phase' = "done"
        /\ content' = FlatSpecs(fileState) \o SpecsOf(cfgState)
     \/ /\ \E k \in DOMAIN inline : cfgState[k].st = "rejected"
        /\ phase' = "rejected"
        /\ UNCHANGED content
  /\ UNCHANGED <<variant, userOptions, entry, file, doc, pc, options, merged, config, resolved>>
  /\ UNCHANGED <<sources, inline, srcState, fileState, cfgState, log>>
  /\ UNCHANGED navVars

(***************************************************************************)
(* contentLoaded and addToNav.           index.ts:263-303, 338-355 (nested) *)
(*                                       index.ts:562-594, 610-624 (flat)  *)
(* Docusaurus calls contentLoaded with what loadContent resolved with;     *)
(* forEach runs its callback on one item after the other.                  *)
(***************************************************************************)
\* a search that never finds the category's dropdown
FindNoDropdown(nb, label) == 0

\* index.ts:277-287 / 574-580  the first dropdown of the navbar with this
\* label (0: none)
FindDropdown(nb, label) ==
  LET hits == {i \in DOMAIN nb : nb[i].type = "dropdown" /\ nb[i].label = label}
  IN IF hits = {} THEN 0 ELSE CHOOSE i \in hits : \A k \in hits : i <= k

\* index.ts:276-298 / 573-590  put specNav under its category's dropdown,
\* creating the dropdown when there is none, or on the navbar itself
PushToNav(nb, category, specNav) ==
  IF Truthy(category)
  THEN LET i == FindDropdown(nb, category.val) IN
         IF i # 0
         THEN [nb EXCEPT ![i].items = Append(@, specNav)]
         ELSE Append(nb, Dropdown(category.val, <<specNav>>))
  ELSE Append(nb, NavLink(specNav.label, specNav.to))

\* contentItem.nav?.label, contentItem.route?.route, config.nav.category
NestedLabel(it)    == IF it.nav.isObj THEN Get(it.nav.f, "label") ELSE Undefined
NestedRoute(it)    == IF it.route.isObj THEN Get(it.route.f, "route") ELSE Undefined
NestedCategory(it) == IF it.nav.isObj THEN Get(it.nav.f, "category") ELSE Undefined

\* index.ts:264-266  config.nav && config.nav.label && config.route?.route
NestedNavReady(it) ==
  it.nav.isObj /\ Truthy(NestedLabel(it)) /\ Truthy(NestedRoute(it))

\* index.ts:563  config.label && config.routePath
FlatNavReady(it) == Truthy(Get(it.top, "label")) /\ Truthy(Get(it.top, "routePath"))

\* logger.warn`[Scalar] spec cannot be added to navigation` for item n
NavWarning(n) ==
  [level |-> "warn", what |-> "spec cannot be added to navigation", at |-> <<0, 0, n>>]

\* index.ts:263-303  addToNav: the navbar it leaves
AddToNavNested(nb, it) ==
  IF NestedNavReady(it)
  THEN PushToNav(nb, NestedCategory(it),
                 SpecNav(NestedLabel(it).val, NestedRoute(it).val))
  ELSE nb

\* index.ts:299-301  addToNav warns: there is a nav, without label or route
AddToNavNestedWarns(it) == it.nav.isObj /\ ~NestedNavReady(it)

\* index.ts:562-594  addToNav: the navbar it leaves
AddToNavFlat(nb, it) ==
  IF FlatNavReady(it)
  THEN PushToNav(nb, Get(it.top, "category"),
                 SpecNav(Get(it.top, "label").val, Get(it.top, "routePath").val))
  ELSE nb

\* addRoute({ path, component, exact, configuration })
RouteCall(path, it) == [path |-> path, configuration |-> it]

\* index.ts:340-354  the callback of content.forEach on the next item
ContentLoadedNested ==
  /\ variant = "nested" /\ phase = "done" /\ cursor < Len(content)
  /\ LET n == cursor + 1  it == content[n] IN
       IF Truthy(NestedRoute(it))
       THEN /\ routes' = Append(routes, RouteCall(NestedRoute(it).val, it))
            /\ IF Truthy(NestedLabel(it))
               THEN /\ navbar' = AddToNavNested(navbar, it)
                    /\ log' = IF AddToNavNestedWarns(it)
                              THEN log \cup {NavWarning(n)} ELSE log
               ELSE UNCHANGED <<navbar, log>>
       ELSE UNCHANGED <<routes, navbar, log>>
  /\ cursor' = cursor + 1
  /\ UNCHANGED <<variant, userOptions, entry, file, doc, pc, options, merged, config, resolved>>
  /\ UNCHANGED <<sources, inline, srcState, fileState, cfgState, phase, content, siteNavbar>>

\* index.ts:612-622  the callback of content.forEach on the next item
ContentLoadedFlat ==
  /\ variant = "flat" /\ phase = "done" /\ cursor < Len(content)
  /\ LET n == cursor + 1  it == content[n] IN
       /\ navbar' = AddToNavFlat(navbar, it)
       /\ log' = IF FlatNavReady(it) THEN log ELSE log \cup {NavWarning(n)}
       /\ routes' = IF FlatNavReady(it)
                    THEN Append(routes, RouteCall(Get(it.top, "routePath").val, it))
                    ELSE routes
  /\ cursor' = cursor + 1
  /\ UNCHANGED <<variant, userOptions, entry, file, doc, pc, options, merged, config, resolved>>
  /\ UNCHANGED <<sources, inline, srcState, fileState, cfgState, phase, content, siteNavbar>>

Next ==
  \/ LoadSpecs
  \/ \E i \in DOMAIN sources : StatSource(i)
  \/ \E i \in DOMAIN sources : FindSpecFiles(i)
  \/ \E i \in DOMAIN sources : \E j \in DOMAIN fileState[i] : LoadFileNested(i, j)
  \/ \E i \in DOMAIN sources : \E j \in DOMAIN fileState[i] : LoadFileFlat(i, j)
  \/ \E i \in DOMAIN sources : SettleSource(i)
  \/ SettlePaths
  \/ \E k \in DOMAIN inline : LoadConfig(k)
  \/ SettleConfigs
  \/ ContentLoadedNested
  \/ ContentLoadedFlat

Init == InitLoad

Spec == Init /\ [][Next]_vars


(***************************************************************************)
(* Properties of loadContent.                                              *)
(***************************************************************************)
\* every path source is a directory that exists
AllSourcesFound == \A i \in DOMAIN sources : sources[i].kind = "dir"

\* C9: whichever files or inline configurations fail to load, the load as a
\* whole never rejects, and it returns exactly the specs that loaded.
C9_FailedItemsNeverRejectTheLoad ==
  AllSourcesFound =>
    /\ phase # "rejected"
    /\ phase = "done" => content = FlatSpecs(fileState) \o SpecsOf(cfgState)

\* a warning was logged for path source i
WarnedAbout(i) == \E l \in log : l.level = "warn" /\ l.at = <<i>>

\* C10: a path source whose path does not exist contributes no spec, has a
\* warning logged, and does not make the load fail.
C10_MissingPathIsSkippedWithWarning ==
  \A i \in DOMAIN sources :
    sources[i].kind = "missing" =>
      /\ srcState[i] # "rejected"
      /\ srcState[i] = "resolved" => (fileState[i] = <<>> /\ WarnedAbout(i))

\* what inline configuration k was written with
ContentGiven(k) == inline[k].spec \in {"content", "both"}
UrlGiven(k)     == inline[k].spec \in {"url", "both"}

\* inline configuration k has settled
Settled(k) == cfgState[k].st \in {"ok", "rejected"}

\* C11, as claimed: content when present is used and the url is not fetched;
\* else the url's content is used; and a configuration that resolves to no
\* content fails with 'Specification content has not been loaded', with no
\* spec produced for it.
C11_ContentSourceAsClaimed ==
  \A k \in DOMAIN cfgState : Settled(k) =>
    /\ ContentGiven(k) =>
         cfgState[k].st = "ok" /\ cfgState[k].from = "content" /\ ~cfgState[k].fetched
    /\ (~ContentGiven(k) /\ cfgState[k].st = "ok") =>
         UrlGiven(k) /\ cfgState[k].from = "url" /\ cfgState[k].fetched
    /\ cfgState[k].st = "rejected" =>
         cfgState[k].err = NotLoaded /\ cfgState[k].spec = NoCfg

\* C11, amended: as claimed, except that a url whose request itself rejects
\* makes the configuration fail with that rejection; the configurations that
\* fail with 'Specification content has not been loaded' are those with no
\* content and no url, or whose url gave nothing.  No failed configuration
\* has a spec.
C11_ContentSourceSelection ==
  \A k \in DOMAIN cfgState : Settled(k) =>
    /\ ContentGiven(k) =>
         cfgState[k].st = "ok" /\ cfgState[k].from = "content" /\ ~cfgState[k].fetched
    /\ (~ContentGiven(k) /\ cfgState[k].st = "ok") =>
         UrlGiven(k) /\ cfgState[k].from = "url" /\ cfgState[k].fetched
    /\ (~ContentGiven(k) /\ ~UrlGiven(k)) =>
         cfgState[k].st = "rejected" /\ cfgState[k].err = NotLoaded /\ ~cfgState[k].fetched
    /\ cfgState[k].st = "rejected" =>
         /\ cfgState[k].spec = NoCfg
         /\ cfgState[k].err \in {NotLoaded, FetchError}
         /\ cfgState[k].err = FetchError => cfgState[k].fetched
    /\ phase = "done" => cfgState[k].st = "ok"

\* content wins over a url, and a configuration with neither fails
C11_Witness ==
  /\ Len(inline) = 2
  /\ inline[1].spec = "url" /\ cfgState[1].st = "rejected" /\ cfgState[1].err = FetchError
  /\ inline[2].spec = "both" /\ cfgState[2].st = "ok" /\ ~cfgState[2].fetched

(***************************************************************************)
(* Properties of contentLoaded and addToNav.                               *)
(***************************************************************************)
\* label, route and category of a loaded spec, in either variant
ItemLabel(it) == IF variant = "nested" THEN NestedLabel(it) ELSE Get(it.top, "label")
ItemRoute(it) == IF variant = "nested" THEN NestedRoute(it) ELSE Get(it.top, "routePath")
ItemCategory(it) ==
  IF variant = "nested" THEN NestedCategory(it) ELSE Get(it.top, "category")

\* the items contentLoaded has processed so far
Processed == SubSeq(content, 1, cursor)

\* the (label, route) entries of the items among its that have a label, a
\* route and the category c, in order
RECURSIVE AddedWith(_, _)
AddedWith(its, c) ==
  IF Len(its) = 0 THEN <<>>
  ELSE (IF /\ Truthy(ItemLabel(its[1])) /\ Truthy(ItemRoute(its[1]))
           /\ ItemCategory(its[1]) = Str(c)
        THEN <<SpecNav(ItemLabel(its[1]).val, ItemRoute(its[1]).val)>>
        ELSE <<>>) \o AddedWith(Tail(its), c)

\* the top-level dropdowns of a navbar that have the label c
DropdownsOf(nb, c) == {i \in DOMAIN nb : nb[i].type = "dropdown" /\ nb[i].label = c}

\* the children the site's own dropdown c had before any spec was added
SiteChildren(c) ==
  IF DropdownsOf(siteNavbar, c) = {} THEN <<>>
  ELSE siteNavbar[CHOOSE i \in DropdownsOf(siteNavbar, c) : TRUE].items

\* the category labels in play
CategoryLabels ==
  {navbar[i].label : i \in DOMAIN navbar}
  \cup {ItemCategory(content[n]).val : n \in {m \in DOMAIN content :
                                                ItemCategory(content[m]).type = "string"}}

\* C12, as claimed: at most one dropdown per category label, and once an
\* entry was added with a category, the children of that category's dropdown
\* are exactly the entries added with it, in order.
C12_OneDropdownWithExactlyTheAdded ==
  \A c \in CategoryLabels :
    /\ Cardinality(DropdownsOf(navbar, c)) <= 1
    /\ AddedWith(Processed, c) # <<>> =>
         /\ DropdownsOf(navbar, c) # {}
         /\ \A i \in DropdownsOf(navbar, c) : navbar[i].items = AddedWith(Processed, c)

\* C12, amended: at most one dropdown per category label, and its children
\* are the children the site gave that dropdown, followed by exactly the
\* entries added with that category, in order.
C12_OneDropdownPerCategory ==
  \A c \in CategoryLabels :
    /\ Cardinality(DropdownsOf(navbar, c)) <= 1
    /\ AddedWith(Processed, c) # <<>> => DropdownsOf(navbar, c) # {}
    /\ \A i \in DropdownsOf(navbar, c) :
         navbar[i].items = SiteChildren(c) \o AddedWith(Processed, c)

\* two specs of one category were added: one dropdown, two children
C12_Witness ==
  /\ siteNavbar = <<>>
  /\ \E c \in CategoryLabels :
       /\ Len(AddedWith(Processed, c)) = 2
       /\ Cardinality(DropdownsOf(navbar, c)) = 1
       /\ \A i \in DropdownsOf(navbar, c) : Len(navbar[i].items) = 2

\* the loaded spec lacks a label or lacks a route
LacksLabelOrRoute(it) == ~Truthy(ItemLabel(it)) \/ ~Truthy(ItemRoute(it))

\* C13: when contentLoaded processes a spec that lacks a label or a route,
\* the navbar stays as it is and the warning 'spec cannot be added to
\* navigation' is logged for that spec.
C13_SkippedSpecIsWarnedAbout ==
  [][(cursor' = cursor + 1 /\ LacksLabelOrRoute(content[cursor'])) =>
       (navbar' = navbar /\ NavWarning(cursor') \in log')]_vars

\* C14: once contentLoaded has gone through the content, addRoute was called
\* once per loaded spec, in order, with the spec's route as path and the spec
\* as configuration, whether or not the spec has a label; and nothing is
\* added to the navbar or the routes before the load is done.
C14_OneRoutePerLoadedSpec ==
  /\ (navbar # siteNavbar \/ routes # <<>>) => phase = "done"
  /\ (phase = "done" /\ cursor = Len(content)) =>
       /\ Len(routes) = Len(content)
       /\ \A n \in DOMAIN routes :
            routes[n] = RouteCall(ItemRoute(content[n]).val, content[n])


=============================================================================
